---- MODULE Spec2Model ----
(***************************************************************************)
(* A model of wily's Git archiver (src/src/wily/archivers/git.py): the     *)
(* history walk (revisions), the single-commit lookup (find), the tree     *)
(* differ (whatchanged), the tree listing (ls_tree / get_tracked_files_-   *)
(* dirs) and the low-level checkout / finish pair that materialises a      *)
(* commit's tree into the working directory.                               *)
(*                                                                         *)
(* A repository is a sequence of commits; the commit with index i has the  *)
(* key (hexsha) i and the commit time i, and its parents are older         *)
(* commits.  A tree maps every path to the entry stored for it: a regular  *)
(* file or a symbolic link with some blob, or nothing.  The working        *)
(* directory and the index file map paths to entries in the same way.      *)
(*                                                                         *)
(* On top of the archiver the module models the callers of wily's State:   *)
(* the annotate command (get_rev_key, annotate_revision), the raw and      *)
(* Halstead operators' run loops, and the Index and the build that fills   *)
(* it; further the bulk report generator (build_reports) and the helpers   *)
(* of the annotate command (get_metric_color, simplify_css / append_css,   *)
(* last_line, get_latest_rev).  Each part has its own specification over   *)
(* the same variables.                                                     *)
(***************************************************************************)
EXTENDS Integers, Sequences, FiniteSets, TLC

VARIABLES
    commits,    \* the object store: commits[i] = [tree, parents]
    HEAD,       \* the commit HEAD resolves to
    branches,   \* branch name -> commit
    worktree,   \* the files of the working directory: path -> entry
    index,      \* the index file: path -> entry
    original,   \* the working directory when the archiver was constructed
    unwritable, \* the paths of the working directory that cannot be written
    state,      \* wily's State: the Index and the Cache of the archiver
    result      \* what the last call returned or raised

vars == <<commits, HEAD, branches, worktree, index, original, unwritable,
          state, result>>

\* Bounds of the model.
MaxCommits == 3
MaxRevisions == 3
MaxAnnotateCommits == 2
MaxLoc == 2
MaxAppends == 3
MaxMetrics == 2
MaxFiles == 2
MaxMaximum == 4
MaxVal == 6
MaxDetails == 3
MaxEndline == 3
MaxNameWords == 2

(***************************************************************************)
(* Paths, entries and trees.                                               *)
(***************************************************************************)
\* The paths of the model, in the name order in which git stores and walks
\* tree entries; DirOrder are the directories that can hold them.
PathOrder == <<"a.py", "d/b.py">>
DirOrder == <<"d">>
Paths == {PathOrder[i] : i \in 1..Len(PathOrder)}
DirOf(p) == IF p = "d/b.py" THEN "d" ELSE ""

NoEntry == [kind |-> "none", blob |-> 0]
File(b) == [kind |-> "file", blob |-> b]
Link(b) == [kind |-> "link", blob |-> b]

\* The entries a commit may store for a path.
EntryChoices(p) ==
    IF p = "a.py" THEN {NoEntry, File(1), File(2), Link(1)}
                  ELSE {NoEntry, File(1)}

Trees == {t \in [Paths -> {NoEntry, File(1), File(2), Link(1)}] :
             \A p \in Paths : t[p] \in EntryChoices(p)}

Reverse(s) == [i \in 1..Len(s) |-> s[Len(s) + 1 - i]]
Range(s) == {s[i] : i \in 1..Len(s)}

(***************************************************************************)
(* ls_tree and get_tracked_files_dirs.                                     *)
(***************************************************************************)
\* ls_tree(recursive, name_only): every entry that is not a directory, in
\* walk order.
ls_tree_files(tree) == SelectSeq(PathOrder, LAMBDA p : tree[p] # NoEntry)

\* ls_tree(recursive, name_only, dir_only): every directory entry; a tree
\* object exists for a directory exactly when it holds an entry.
ls_tree_dirs(tree) ==
    SelectSeq(DirOrder, LAMBDA d : \E p \in Paths : DirOf(p) = d /\ tree[p] # NoEntry)

\* dpaths: the output split at "\n" with the first "" removed.  ddirs: the
\* output split at "\n", which ends with "" (and is [""] for no output),
\* followed by one more "".
get_tracked_files_dirs(c) ==
    [files |-> ls_tree_files(commits[c].tree),
     dirs  |-> ls_tree_dirs(commits[c].tree) \o <<"">> \o <<"">>]

\* A tree object as the sequence of its entries in git's name order; the
\* entry of a directory holds the tree object of the directory.  A path is
\* the sequence of its components, so "" is <<>> and posixpath.join(base,
\* name) appends a component.
Entry(name, kind, tree) == [name |-> name, kind |-> kind, tree |-> tree]

\* list_tree without the recursion into directories.
RECURSIVE list_tree_top(_, _, _)
list_tree_top(tree, base, dir_only) ==
    IF tree = <<>> THEN <<>>
    ELSE LET a_dir == Head(tree).kind = "dir"
             name == IF base # <<>> THEN base \o <<Head(tree).name>>
                     ELSE <<Head(tree).name>>
             written == IF ~a_dir /\ ~dir_only THEN <<name>>
                        ELSE IF a_dir /\ dir_only THEN <<name>>
                        ELSE <<>>
         IN  written \o list_tree_top(Tail(tree), base, dir_only)

\* ls_tree's list_tree(store, treeid, base) with recursive and name_only
\* set: the names written to the stream, one per line.
RECURSIVE list_tree(_, _, _)
list_tree(tree, base, dir_only) ==
    IF tree = <<>> THEN <<>>
    ELSE LET a_dir == Head(tree).kind = "dir"
             name == IF base # <<>> THEN base \o <<Head(tree).name>>
                     ELSE <<Head(tree).name>>
             written == IF ~a_dir /\ ~dir_only THEN <<name>>
                        ELSE IF a_dir /\ dir_only THEN <<name>>
                        ELSE <<>>
             below == IF a_dir THEN list_tree(Head(tree).tree, name, dir_only)
                      ELSE <<>>
         IN  written \o below \o list_tree(Tail(tree), base, dir_only)

\* output.getvalue().decode().split("\n") for a stream of lines that each
\* end with "\n": the lines and a last, empty string.
split_lines(lines) == Append(lines, <<>>)

\* list.remove(x): the list without the first x.
RECURSIVE remove(_, _)
remove(list, x) ==
    IF list = <<>> THEN <<>>
    ELSE IF Head(list) = x THEN Tail(list)
    ELSE <<Head(list)>> \o remove(Tail(list), x)

\* get_tracked_files_dirs on a tree object.
tracked_files_dirs(tree) ==
    [files |-> remove(split_lines(list_tree(tree, <<>>, FALSE)), <<>>),
     dirs  |-> split_lines(list_tree(tree, <<>>, TRUE)) \o << <<>> >>]

(***************************************************************************)
(* The tree differ.                                                        *)
(***************************************************************************)
Change(type, old, new) == [type |-> type, old |-> old, new |-> new]

\* dulwich's tree_changes for one path: nothing for equal entries, an add
\* or a delete when one side is missing, a delete followed by an add when
\* the file type changed, a modify otherwise.  No rename detector is
\* passed, so no rename is reported.
changes_at(p, tree1, tree2) ==
    LET e1 == tree1[p]
        e2 == tree2[p]
    IN  IF e1 = e2 THEN <<>>
        ELSE IF e1 # NoEntry /\ e2 # NoEntry
             THEN IF e1.kind # e2.kind
                  THEN <<Change("delete", p, ""), Change("add", "", p)>>
                  ELSE <<Change("modify", p, p)>>
        ELSE IF e1 # NoEntry THEN <<Change("delete", p, "")>>
        ELSE <<Change("add", "", p)>>

RECURSIVE tree_changes_from(_, _, _)
tree_changes_from(i, tree1, tree2) ==
    IF i > Len(PathOrder) THEN <<>>
    ELSE changes_at(PathOrder[i], tree1, tree2) \o tree_changes_from(i + 1, tree1, tree2)

\* A differ with a rename detector: an entry that left one path and came
\* to another is reported as one change of type "rename".
tree_changes_renames(tree1, tree2) ==
    LET moved == {pq \in Paths \X Paths :
                     /\ pq[1] # pq[2]
                     /\ tree1[pq[1]] # NoEntry /\ tree2[pq[1]] = NoEntry
                     /\ tree1[pq[2]] = NoEntry /\ tree2[pq[2]] = tree1[pq[1]]}
    IN  IF moved = {} THEN tree_changes_from(1, tree1, tree2)
        ELSE LET pq == CHOOSE pq \in moved : TRUE
             IN  <<Change("rename", pq[1], pq[2])>>

tree_changes(tree1, tree2) == tree_changes_from(1, tree1, tree2)

\* The loop of whatchanged over the changes, from the i-th on: a change is
\* appended to the list its type names.
RECURSIVE whatchanged_loop(_, _, _)
whatchanged_loop(ddiffs, i, acc) ==
    IF i > Len(ddiffs) THEN acc
    ELSE LET ddiff == ddiffs[i]
             next ==
                 IF ddiff.type = "modify"
                 THEN [acc EXCEPT !.modified = Append(@, ddiff.new)]
                 ELSE IF ddiff.type = "add"
                 THEN [acc EXCEPT !.added = Append(@, ddiff.new)]
                 ELSE IF ddiff.type = "delete"
                 THEN [acc EXCEPT !.deleted = Append(@, ddiff.old)]
                 ELSE IF ddiff.type = "renamed"
                 THEN [acc EXCEPT !.added = Append(@, ddiff.new),
                                  !.deleted = Append(@, ddiff.old)]
                 ELSE acc
         IN  whatchanged_loop(ddiffs, i + 1, next)

\* A differ that passes the two trees to tree_changes in the other order.
whatchanged_swapped(tree_a, tree_b) ==
    whatchanged_loop(tree_changes(tree_a, tree_b), 1,
                     [added |-> <<>>, modified |-> <<>>, deleted |-> <<>>])

\* whatchanged(tree_a, tree_b, store): the changes from tree_b to tree_a,
\* sorted into three lists by their type.
whatchanged(tree_a, tree_b) ==
    whatchanged_loop(tree_changes(tree_b, tree_a), 1,
                     [added |-> <<>>, modified |-> <<>>, deleted |-> <<>>])

(***************************************************************************)
(* The history walk.                                                       *)
(***************************************************************************)
\* Commits are numbered in the order they were made: a commit is later than
\* its parents, and no two commits share a commit time.
commit_time(c) == c
Latest(S) == CHOOSE c \in S : \A d \in S : commit_time(d) <= commit_time(c)

\* dulwich's Walker from HEAD in date order: the pending commit with the
\* greatest commit time is returned and its unseen parents become pending,
\* until max_entries commits were returned.
RECURSIVE walker_next(_, _, _)
walker_next(pending, seen, max_entries) ==
    IF pending = {} \/ max_entries = 0 THEN <<>>
    ELSE LET c == Latest(pending)
             ps == Range(commits[c].parents) \ seen
         IN  <<c>> \o walker_next((pending \ {c}) \cup ps, seen \cup ps, max_entries - 1)

\* A walk that does not pass max_entries on.
get_walker_unbounded(max_entries) ==
    Reverse(walker_next({HEAD}, {HEAD}, Len(commits)))

\* get_walker(max_entries, reverse=True): the walk's entries, reversed.
get_walker(max_entries) == Reverse(walker_next({HEAD}, {HEAD}, max_entries))

(***************************************************************************)
(* GitArchiver.revisions and GitArchiver.find.                             *)
(***************************************************************************)
\* A Revision; diffed records whether whatchanged was invoked to build it.
Revision(key, tracked, changes, diffed) ==
    [key            |-> key,
     tracked_files  |-> tracked.files,
     tracked_dirs   |-> tracked.dirs,
     added_files    |-> changes.added,
     modified_files |-> changes.modified,
     deleted_files  |-> changes.deleted,
     diffed         |-> diffed]

\* A root branch that leaves added_files empty.
AllAdded_none(tracked) == [added |-> <<>>, modified |-> <<>>, deleted |-> <<>>]

\* added_files = tracked_files, modified_files = [], deleted_files = []
AllAdded(tracked) == [added |-> tracked.files, modified |-> <<>>, deleted |-> <<>>]

\* A walk that diffs against the last parent.
revisions_parent_tree_last(dcommit) ==
    commits[commits[dcommit].parents[Len(commits[dcommit].parents)]].tree

\* The tree revisions diffs a commit against: that of dcommit.parents[0].
revisions_parent_tree(dcommit) == commits[commits[dcommit].parents[1]].tree

\* A lookup that diffs against the last parent.
find_parent_tree_last(commit) ==
    commits[commits[commit].parents[Len(commits[commit].parents)]].tree

\* The tree find diffs a commit against: that of commit.hexsha + "~1", the
\* first parent.
find_parent_tree(commit) == commits[commits[commit].parents[1]].tree

\* Whether the loop of revisions takes the branch that skips the differ.
revisions_as_root(dcommit, revisions) ==
    commits[dcommit].parents = <<>> \/ revisions = <<>>

\* The loop of revisions over the walk's entries, from the i-th on.
RECURSIVE revisions_loop(_, _, _)
revisions_loop(entries, i, revisions) ==
    IF i > Len(entries) THEN revisions
    ELSE LET dcommit == entries[i]
             tracked == get_tracked_files_dirs(dcommit)
             rev ==
                 IF revisions_as_root(dcommit, revisions)
                 THEN Revision(dcommit, tracked, AllAdded(tracked), FALSE)
                 ELSE Revision(dcommit, tracked,
                               whatchanged(commits[dcommit].tree,
                                           revisions_parent_tree(dcommit)),
                               TRUE)
         IN  revisions_loop(entries, i + 1, Append(revisions, rev))

\* Repo.is_dirty() with its defaults (index=True, working_tree=True,
\* untracked_files=False): the index differs from HEAD's tree, or a file of
\* the index differs in the working directory.
is_dirty ==
    \/ index # commits[HEAD].tree
    \/ \E p \in Paths : index[p] # NoEntry /\ worktree[p] # index[p]

\* Repo.untracked_files: the files of the working directory the index does
\* not hold.
untracked_files ==
    SelectSeq(PathOrder, LAMBDA p : worktree[p] # NoEntry /\ index[p] = NoEntry)

Outcome(op, arg, status, revs, listed, untracked) ==
    [op |-> op, arg |-> arg, status |-> status, revs |-> revs,
     listed |-> listed, untracked |-> untracked]

\* A walk that returns the list as it was built.
revisions_result_unreversed(revisions) == revisions

\* revisions[::-1]
revisions_result(revisions) == Reverse(revisions)

revisions(max_revisions) ==
    IF is_dirty
    THEN Outcome("revisions", max_revisions, "DirtyGitRepositoryError",
                 <<>>, <<>>, untracked_files)
    ELSE LET entries == get_walker(max_revisions)
         IN  Outcome("revisions", max_revisions, "ok",
                     revisions_result(revisions_loop(entries, 1, <<>>)),
                     entries, <<>>)

\* Repo.commit(search): the commit a specifier names; 0 stands for a
\* specifier that names none.
Resolves(search) == search \in 1..Len(commits)

\* The key of the Revision is the first word of commit.name_rev, which is
\* the commit's hexsha, as dcommit.id is in revisions.
find(search) ==
    IF ~Resolves(search)
    THEN Outcome("find", search, "BadName", <<>>, <<>>, <<>>)
    ELSE LET commit == search
             tracked == get_tracked_files_dirs(commit)
             rev ==
                 IF commits[commit].parents = <<>>
                 THEN Revision(commit, tracked, AllAdded(tracked), FALSE)
                 ELSE Revision(commit, tracked,
                               whatchanged(commits[commit].tree,
                                           find_parent_tree(commit)),
                               TRUE)
         IN  Outcome("find", search, "ok", <<rev>>, <<commit>>, <<>>)

\* A string is the sequence of its pieces: words, " ", "<" and ">".
\* The words of a name with " " between them.
RECURSIVE join_words(_)
join_words(words) ==
    IF Len(words) <= 1 THEN words
    ELSE <<Head(words), " ">> \o join_words(Tail(words))

\* The author of a commit as git stores it: "name <email>".
author_line(words, email) == join_words(words) \o <<" ", "<", email, ">">>

\* str.split(" "): the parts between the spaces; part is the part that is
\* being read.
RECURSIVE split(_, _)
split(string, part) ==
    IF string = <<>> THEN <<part>>
    ELSE IF Head(string) = " " THEN <<part>> \o split(Tail(string), <<>>)
    ELSE split(Tail(string), Append(part, Head(string)))

\* str.strip("<>"): without the "<" and ">" at both ends.
RECURSIVE strip(_)
strip(string) ==
    IF string = <<>> THEN <<>>
    ELSE IF Head(string) \in {"<", ">"} THEN strip(Tail(string))
    ELSE IF string[Len(string)] \in {"<", ">"}
    THEN strip(SubSeq(string, 1, Len(string) - 1))
    ELSE string

\* author_name and author_email as revisions() takes them from
\* dcommit.author.
revisions_author(author) ==
    [author_name  |-> split(author, <<>>)[1],
     author_email |-> strip(split(author, <<>>)[2])]

\* commit.author.name and commit.author.email as find() reads them:
\* GitPython's Actor, the name before " <" and the address between "<" and
\* ">".
find_author(author) ==
    LET open == CHOOSE k \in DOMAIN author : author[k] = "<"
    IN  [author_name  |-> SubSeq(author, 1, open - 2),
         author_email |-> SubSeq(author, open + 1, Len(author) - 1)]

(***************************************************************************)
(* checkout and finish.                                                    *)
(***************************************************************************)
\* build_index_from_tree: every entry of the tree is written to its path in
\* the working directory; a path the tree does not hold is left as it is.
materialize(tree, files) ==
    [p \in Paths |-> IF tree[p] # NoEntry THEN tree[p] ELSE files[p]]

\* build_index_from_tree: the index is written anew from the tree.
index_from_tree(tree) == tree

\* The positions in walk order of the entries of the tree whose path cannot
\* be written.
Failing(tree) ==
    {i \in 1..Len(PathOrder) :
        tree[PathOrder[i]] # NoEntry /\ PathOrder[i] \in unwritable}

\* The entries of the tree that come before position stop in walk order.
Before(tree, stop) ==
    [p \in Paths |-> IF \E i \in 1..(stop - 1) : PathOrder[i] = p
                     THEN tree[p] ELSE NoEntry]

\* checkout(repo, revision): build_index_from_tree writes the entries of the
\* revision's tree in walk order and then the index file.  A path that
\* cannot be written raises OSError from the write: the entries before it
\* are written, the index file is not.
checkout(revision) ==
    LET tree == commits[revision].tree
    IN  IF Failing(tree) = {}
        THEN [status   |-> "ok",
              worktree |-> materialize(tree, worktree),
              index    |-> index_from_tree(tree)]
        ELSE LET stop == CHOOSE i \in Failing(tree) : \A j \in Failing(tree) : i <= j
             IN  [status   |-> "OSError",
                  worktree |-> materialize(Before(tree, stop), worktree),
                  index    |-> index]

\* wily's State before any build: an empty Index and an empty Cache.
NoState == [index |-> <<>>, cache |-> {}]

(***************************************************************************)
(* wily's State (Index and Cache) and the annotate command                 *)
(* (src/src/wily/commands/annotate.py, src/src/annotator.py).              *)
(***************************************************************************)
\* Index lookup, state.index[archiver][key]: the IndexedRevision of a key
\* that was appended, not-found (a KeyError) for any other key.
lookup(key) ==
    IF \E i \in 1..Len(state.index) : state.index[i] = key
    THEN [status |-> "ok", key |-> key]
    ELSE [status |-> "KeyError", key |-> key]

\* An append that adds the key whether or not the Index holds it.
index_append_always(keys, key) == Append(keys, key)

\* Index append(revision): a new entry is added at the tail when, and only
\* when, the key is not present; for a key that is present nothing is done
\* and nothing is raised.
index_append(keys, key) ==
    IF \E i \in 1..Len(keys) : keys[i] = key THEN keys ELSE Append(keys, key)

\* last_revision: the newest entry, the tail of the Index.
last_revision(keys) == keys[Len(keys)]

\* The keys of the revisions the archiver returned, which come newest
\* first, in chronological order.
RECURSIVE oldest_first(_)
oldest_first(revs) ==
    IF revs = <<>> THEN <<>>
    ELSE Append(oldest_first(Tail(revs)), Head(revs).key)

\* A build that takes every revision of the walk as new work.
build_new_work_all(walk) == walk

\* The new work of a build: the revisions of the walk, oldest first, that
\* come after the Index's last_revision; all of them for an empty Index.
build_new_work(walk) ==
    IF state.index = <<>> THEN walk
    ELSE SelectSeq(walk, LAMBDA c :
             commit_time(c) > commit_time(last_revision(state.index)))

\* The loop of a build over its new work, in chronological order: the
\* revision is checked out, the operators' results are written to the
\* Cache and the revision is appended to the Index.
RECURSIVE build_loop(_, _, _)
build_loop(work, i, acc) ==
    IF i > Len(work) THEN acc
    ELSE build_loop(work, i + 1,
             [files    |-> materialize(commits[work[i]].tree, acc.files),
              cache    |-> acc.cache \cup {work[i]},
              writes   |-> Append(acc.writes, work[i]),
              index    |-> index_append(acc.index, work[i]),
              appended |-> IF work[i] \in Range(acc.index) THEN acc.appended
                           ELSE Append(acc.appended, work[i])])

\* as_dict["operator_data"]["cyclomatic"]: the cache entry of a revision
\* holds data for the files the revision tracks.
cyclomatic(rev_key) == ls_tree_files(commits[rev_key].tree)

\* str.lower() on the formats of the model.
lower(format) ==
    IF format = "HTML" THEN "html"
    ELSE IF format = "CONSOLE" THEN "console"
    ELSE format

\* filename.replace("\\", ".").replace("/", ".")
htmlname(filename) == IF filename = "d/b.py" THEN "d.b.py" ELSE filename

\* reports_dir / f"annotated_{htmlname}.html"
output_file(filename) == <<"annotated_", htmlname(filename), ".html">>

\* What a call of the annotate command did: how it ended, what it logged
\* as an error, the keys it looked up in the Index, the cache entries it
\* read and the files it wrote.
Report(op, arg, status, code, log, looked_up, cache_reads, written) ==
    [op |-> op, arg |-> arg, status |-> status, code |-> code, log |-> log,
     looked_up |-> looked_up, cache_reads |-> cache_reads, written |-> written]

NotInRepository == "not found in current git repository"
NotInCache == "is not in the cache, make sure you have run wily build"
NoFileData == "Data for file not found on revision"
NoData == "has no files with Cyclomatic Complexity data"

\* A get_rev_key that goes on with HEAD when the specifier names no commit.
get_rev_key_fallback(revision_index) ==
    LET key == IF revision_index = <<>> THEN HEAD ELSE revision_index[1]
        found == IF find(key).status = "BadName" THEN find(HEAD) ELSE find(key)
        rev == found.revs[1]
        target_revision == lookup(rev.key)
    IN  IF target_revision.status = "KeyError"
        THEN [status |-> "exit", code |-> 1, log |-> <<NotInCache>>,
              looked_up |-> <<rev.key>>, rev_key |-> 0]
        ELSE [status |-> "ok", code |-> 0, log |-> <<>>,
              looked_up |-> <<rev.key>>, rev_key |-> target_revision.key]

\* A get_rev_key that returns the key it resolved whether or not the Index
\* holds it.
get_rev_key_unindexed(revision_index) ==
    LET key == IF revision_index = <<>> THEN HEAD ELSE revision_index[1]
        found == find(key)
    IN  IF found.status = "BadName"
        THEN [status |-> "exit", code |-> 1, log |-> <<NotInRepository>>,
              looked_up |-> <<>>, rev_key |-> 0]
        ELSE [status |-> "ok", code |-> 0, log |-> <<>>,
              looked_up |-> <<found.revs[1].key>>, rev_key |-> found.revs[1].key]

\* get_rev_key(archiver, revision_index, state): the specifier is a string,
\* here the empty sequence or a sequence of one word; "HEAD" is the commit
\* HEAD resolves to.
get_rev_key(revision_index) ==
    LET key == IF revision_index = <<>> THEN HEAD ELSE revision_index[1]
        found == find(key)
    IN  IF found.status = "BadName"
        THEN [status |-> "exit", code |-> 1, log |-> <<NotInRepository>>,
              looked_up |-> <<>>, rev_key |-> 0]
        ELSE LET rev == found.revs[1]
                 target_revision == lookup(rev.key)
             IN  IF target_revision.status = "KeyError"
                 THEN [status |-> "exit", code |-> 1, log |-> <<NotInCache>>,
                       looked_up |-> <<rev.key>>, rev_key |-> 0]
                 ELSE [status |-> "ok", code |-> 0, log |-> <<>>,
                       looked_up |-> <<rev.key>>, rev_key |-> target_revision.key]

\* The part of annotate_revision after the revision key is known: the
\* cache entry is read, the files to annotate are chosen and each of them
\* is written (HTML) or printed (CONSOLE).
annotate_files(op, args, rev_key, looked_up) ==
    LET files == cyclomatic(rev_key)
        py_files == IF args.path # "" THEN <<args.path>> ELSE files
        written == IF lower(args.format) = "html"
                   THEN {output_file(py_files[i]) : i \in 1..Len(py_files)}
                            \cup {<<"annotated.css">>, <<"annotated.js">>}
                   ELSE {}
    IN  IF args.path # "" /\ args.path \notin Range(files)
        THEN Report(op, args, "exit", 1, <<NoFileData>>, looked_up, <<rev_key>>, {})
        ELSE IF args.path = "" /\ py_files = <<>>
        THEN Report(op, args, "exit", 1, <<NoData>>, looked_up, <<rev_key>>, {})
        ELSE Report(op, args, "ok", 0, <<>>, looked_up, <<rev_key>>, written)

\* wily.commands.annotate.annotate_revision
annotate_revision(args) ==
    LET got == get_rev_key(args.revision_index)
    IN  IF got.status = "exit"
        THEN Report("annotate_revision", args, "exit", got.code, got.log,
                    got.looked_up, <<>>, {})
        ELSE annotate_files("annotate_revision", args, got.rev_key, got.looked_up)

\* annotator.annotate_revision: the specifier is resolved with rev_parse,
\* find is called only for a specifier that is not empty, and the Index is
\* looked up with the hexsha of the commit.
annotator_annotate_revision(args) ==
    LET op == "annotator.annotate_revision"
        revision_index == args.revision_index
    IN  IF revision_index # <<>> /\ ~Resolves(revision_index[1])
        THEN Report(op, args, "exit", 1, <<NotInRepository>>, <<>>, <<>>, {})
        ELSE LET commit == IF revision_index = <<>> THEN HEAD ELSE revision_index[1]
                 target_revision == lookup(commit)
             IN  IF target_revision.status = "KeyError"
                 THEN Report(op, args, "exit", 1, <<NotInCache>>, <<commit>>, <<>>, {})
                 ELSE annotate_files(op, args, target_revision.key, <<commit>>)

\* The filenames of the cyclomatic data of a cache entry: the files of the
\* revision and, for the totals of the directories, the directories that
\* hold them.
cyclomatic_items(rev_key) ==
    cyclomatic(rev_key) \o ls_tree_dirs(commits[rev_key].tree) \o <<"">>

\* filename.endswith(".py") on the filenames of the model.
endswith_py(filename) == filename \in {"a.py", "d/b.py"}

\* The inner loop of get_latest_rev over cyclomatic.items().
RECURSIVE latest_items_loop(_, _, _, _)
latest_items_loop(items, i, rev_key, latest) ==
    IF i > Len(items) THEN latest
    ELSE latest_items_loop(items, i + 1, rev_key,
             IF endswith_py(items[i]) /\ items[i] \notin DOMAIN latest
             THEN [f \in DOMAIN latest \cup {items[i]} |->
                      IF f = items[i] THEN rev_key ELSE latest[f]]
             ELSE latest)

\* The loop of get_latest_rev over revision_keys; reading the cache entry
\* of a key the Cache does not hold raises.
RECURSIVE latest_keys_loop(_, _, _)
latest_keys_loop(revision_keys, i, latest) ==
    IF i > Len(revision_keys) THEN [status |-> "ok", latest |-> latest]
    ELSE IF revision_keys[i] \notin state.cache
    THEN [status |-> "FileNotFoundError", latest |-> latest]
    ELSE latest_keys_loop(revision_keys, i + 1,
             latest_items_loop(cyclomatic_items(revision_keys[i]), 1,
                               revision_keys[i], latest))

\* get_latest_rev(config, revision_keys)
get_latest_rev(revision_keys) ==
    LET done == latest_keys_loop(revision_keys, 1, [f \in {} |-> 0])
    IN  [op |-> "get_latest_rev", arg |-> revision_keys,
         status |-> done.status, latest |-> done.latest]

(***************************************************************************)
(* The operators (src/src/wily/operators/raw.py, halstead.py).             *)
(***************************************************************************)
\* {} and d[k] = v
EmptyDict == [k \in {} |-> 0]
Put(d, k, v) == [x \in DOMAIN d \cup {k} |-> IF x = k THEN v ELSE d[x]]

\* What a harvester holds for a file it could not analyze: {"error": str(e)}
HarvestError(msg) == [type |-> "dict", error |-> msg]

\* The blocks of RawVisitor: the module first, then functions and classes.
Module(loc) == [type |-> "Module", loc |-> loc]
RawFunctionMetrics(loc, lineno) ==
    [type |-> "RawFunctionMetrics", loc |-> loc, lineno |-> lineno]
RawClassMetrics(loc, lineno) ==
    [type |-> "RawClassMetrics", loc |-> loc, lineno |-> lineno]
Blocks(module, functions, classes) ==
    [type |-> "list",
     blocks |-> <<(<<"__ModuleMetrics__", module>>)>> \o functions \o classes]

\* RawMetricsOperator._report_to_dict: the counters (loc stands for all of
\* them), and is_class, lineno and endline for a report that has a lineno.
raw_report_to_dict(report) ==
    IF report.type = "Module"
    THEN [loc |-> report.loc]
    ELSE [loc |-> report.loc, is_class |-> report.type = "RawClassMetrics",
          lineno |-> report.lineno]

\* The inner loop of RawMetricsOperator.run over the blocks of one file.
RECURSIVE raw_details_loop(_, _, _)
raw_details_loop(blocks, i, entry) ==
    IF i > Len(blocks) THEN entry
    ELSE LET name == blocks[i][1]
             instance == blocks[i][2]
             next ==
                 IF instance.type \in {"Module", "RawClassMetrics", "RawFunctionMetrics"}
                 THEN IF name = "__ModuleMetrics__"
                      THEN [entry EXCEPT !.total = raw_report_to_dict(instance)]
                      ELSE [entry EXCEPT
                                !.detailed = Put(@, name, raw_report_to_dict(instance))]
                 ELSE entry
         IN  raw_details_loop(blocks, i + 1, next)

\* A loop that stops at the first file the harvester could not analyze.
RECURSIVE raw_run_loop_stops(_, _, _)
raw_run_loop_stops(harvest, i, acc) ==
    IF i > Len(harvest) THEN acc
    ELSE LET filename == harvest[i][1]
             details == harvest[i][2]
             empty == [detailed |-> EmptyDict, total |-> EmptyDict]
         IN  IF details.type = "dict" /\ "error" \in DOMAIN details
             THEN [acc EXCEPT !.log = Append(@, filename)]
             ELSE raw_run_loop_stops(harvest, i + 1,
                      [acc EXCEPT !.results =
                           Put(@, filename, raw_details_loop(details.blocks, 1, empty))])

\* The loop of RawMetricsOperator.run over the harvester's results, from
\* the i-th on.
RECURSIVE raw_run_loop(_, _, _)
raw_run_loop(harvest, i, acc) ==
    IF i > Len(harvest) THEN acc
    ELSE LET filename == harvest[i][1]
             details == harvest[i][2]
             empty == [detailed |-> EmptyDict, total |-> EmptyDict]
         IN  IF details.type = "dict" /\ "error" \in DOMAIN details
             THEN raw_run_loop(harvest, i + 1,
                      [acc EXCEPT !.results = Put(@, filename, empty),
                                  !.log = Append(@, filename)])
             ELSE raw_run_loop(harvest, i + 1,
                      [acc EXCEPT !.results =
                           Put(@, filename, raw_details_loop(details.blocks, 1, empty))])

\* RawMetricsOperator.run(module, options)
raw_run(harvest) ==
    LET done == raw_run_loop(harvest, 1, [results |-> EmptyDict, log |-> <<>>])
    IN  [op |-> "raw.run", arg |-> harvest, status |-> "ok",
         results |-> done.results, log |-> done.log]

\* Halstead(total, functions) of NumberedHCHarvester.gobble
NumberedHalsteadReport(h1, lineno) ==
    [type |-> "NumberedHalsteadReport", h1 |-> h1, lineno |-> lineno]
Halstead(total, functions) ==
    [type |-> "Halstead", total |-> total, functions |-> functions]

\* HalsteadOperator._report_to_dict (h1 stands for all the counters)
halstead_report_to_dict(report) == [h1 |-> report.h1, lineno |-> report.lineno]

\* "for instance in details": the keys of the dict of an error, the two
\* fields of a Halstead tuple.
halstead_instances(details) ==
    IF details.type = "dict"
    THEN <<[type |-> "str", value |-> "error"]>>
    ELSE <<details.total, [type |-> "list", items |-> details.functions]>>

RECURSIVE halstead_items_loop(_, _, _)
halstead_items_loop(items, i, detailed) ==
    IF i > Len(items) THEN detailed
    ELSE halstead_items_loop(items, i + 1,
             Put(detailed, items[i][1], halstead_report_to_dict(items[i][2])))

\* The inner loop of HalsteadOperator.run over the instances of one file.
RECURSIVE halstead_details_loop(_, _, _)
halstead_details_loop(instances, i, acc) ==
    IF i > Len(instances) THEN acc
    ELSE LET instance == instances[i]
             next ==
                 IF instance.type = "list"
                 THEN [acc EXCEPT !.entry.detailed =
                           halstead_items_loop(instance.items, 1, @)]
                 ELSE IF instance.type = "str" /\ instance.value = "error"
                 THEN [acc EXCEPT !.logged = TRUE]
                 ELSE [acc EXCEPT !.entry.total = halstead_report_to_dict(instance)]
         IN  halstead_details_loop(instances, i + 1, next)

\* The loop of HalsteadOperator.run over the harvester's results.
RECURSIVE halstead_run_loop(_, _, _)
halstead_run_loop(harvest, i, acc) ==
    IF i > Len(harvest) THEN acc
    ELSE LET filename == harvest[i][1]
             details == harvest[i][2]
             empty == [detailed |-> EmptyDict, total |-> EmptyDict]
             done == halstead_details_loop(halstead_instances(details), 1,
                                           [entry |-> empty, logged |-> FALSE])
         IN  halstead_run_loop(harvest, i + 1,
                 [results |-> Put(acc.results, filename, done.entry),
                  log |-> IF done.logged THEN Append(acc.log, filename) ELSE acc.log])

\* HalsteadOperator.run(module, options)
halstead_run(harvest) ==
    LET done == halstead_run_loop(harvest, 1, [results |-> EmptyDict, log |-> <<>>])
    IN  [op |-> "halstead.run", arg |-> harvest, status |-> "ok",
         results |-> done.results, log |-> done.log]

(***************************************************************************)
(* The bulk report generator (src/src/wily/commands/bulk.py,               *)
(* src/src/bulk_wily.py).                                                  *)
(***************************************************************************)
\* The metric names of the model, two of those list_all_metrics returns.
MetricNames == {"loc", "mi"}

\* A call of graph() or report(): the path it is about, the metrics and the
\* file it writes.
Call(fn, path, metrics, output) ==
    [fn |-> fn, path |-> path, metrics |-> metrics, output |-> output]

\* The first loop of build_reports with graph() called whatever index_only
\* says.
RECURSIVE build_reports_globals_always(_, _, _, _)
build_reports_globals_always(metrics, i, index_only, acc) ==
    IF i > Len(metrics) THEN acc
    ELSE LET metric_file == <<"global_", metrics[i], ".html">>
         IN  build_reports_globals_always(metrics, i + 1, index_only,
                 [created_files |-> Append(acc.created_files, metric_file),
                  calls |-> Append(acc.calls,
                      Call("graph", "", <<metrics[i]>>, metric_file))])

\* The first loop of build_reports: one global graph file per metric, drawn
\* unless index_only is set.
RECURSIVE build_reports_globals(_, _, _, _)
build_reports_globals(metrics, i, index_only, acc) ==
    IF i > Len(metrics) THEN acc
    ELSE LET metric_file == <<"global_", metrics[i], ".html">>
         IN  build_reports_globals(metrics, i + 1, index_only,
                 [created_files |-> Append(acc.created_files, metric_file),
                  calls |-> IF ~index_only
                            THEN Append(acc.calls,
                                Call("graph", "", <<metrics[i]>>, metric_file))
                            ELSE acc.calls])

\* The inner loop of build_reports: one graph file per metric of a file,
\* drawn unless index_only or globals_only is set.
RECURSIVE build_reports_metrics(_, _, _, _, _)
build_reports_metrics(filename, metrics, i, quiet, acc) ==
    IF i > Len(metrics) THEN acc
    ELSE LET metric_file == <<htmlname(filename), "_", metrics[i], ".html">>
         IN  build_reports_metrics(filename, metrics, i + 1, quiet,
                 [created_files |-> Append(acc.created_files, metric_file),
                  calls |-> IF ~quiet
                            THEN Append(acc.calls,
                                Call("graph", filename, <<metrics[i]>>,
                                     metric_file))
                            ELSE acc.calls])

\* The second loop of build_reports: for every file its report and then its
\* graphs.
RECURSIVE build_reports_files(_, _, _, _, _)
build_reports_files(files, i, metrics, quiet, acc) ==
    IF i > Len(files) THEN acc
    ELSE LET new_output == <<htmlname(files[i]), "_report.html">>
             reported ==
                 [created_files |-> Append(acc.created_files, new_output),
                  calls |-> IF ~quiet
                            THEN Append(acc.calls,
                                Call("report", files[i], metrics, new_output))
                            ELSE acc.calls]
         IN  build_reports_files(files, i + 1, metrics, quiet,
                 build_reports_metrics(files[i], metrics, 1, quiet, reported))

\* build_reports(config, metrics, files, path, cached, index_only,
\* globals_only, changes_only): the files listed, the calls made and the
\* file written at the end.
build_reports(metrics, files, index_only, globals_only) ==
    LET start == [created_files |-> << <<"index.html">> >>, calls |-> <<>>]
        globals == build_reports_globals(metrics, 1, index_only, start)
        done == build_reports_files(files, 1, metrics,
                                    index_only \/ globals_only, globals)
    IN  [op |-> "build_reports",
         arg |-> [metrics |-> metrics, files |-> files,
                  index_only |-> index_only, globals_only |-> globals_only],
         status |-> "ok", created_files |-> done.created_files,
         calls |-> done.calls, written |-> << <<"index.html">> >>]

(***************************************************************************)
(* The helpers of the annotate command: colours, style sheets and line     *)
(* numbers (src/src/wily/commands/annotate.py, src/src/annotator.py).      *)
(***************************************************************************)
\* Maximum values for each metric.
MAX_DICT ==
    [name \in {"cc_function", "h1", "h2", "N1", "N2", "vocabulary", "length",
               "volume", "effort", "difficulty"} |->
        CASE name = "cc_function" -> 50
          [] name \in {"h1", "h2", "N1", "N2", "difficulty"} -> 40
          [] name \in {"vocabulary", "length"} -> 80
          [] name = "volume" -> 500
          [] name = "effort" -> 2000]

\* Python's None.
None == "None"

\* round(n / d) for d > 0: to the nearest integer, a half to the even one.
round(n, d) ==
    LET q == n \div d
        r == n % d
    IN  IF 2 * r < d THEN q
        ELSE IF 2 * r > d THEN q + 1
        ELSE IF q % 2 = 0 THEN q ELSE q + 1

\* max(0, min(255, x))
clamp(x) == IF x < 0 THEN 0 ELSE IF x > 255 THEN 255 ELSE x

\* The colour as the tuple the function formats.
rgba(red, green, blue) ==
    [red |-> red, green |-> green, blue |-> blue, alpha |-> "0.75"]

\* get_metric_color with the maximum argument used whatever the name is.
get_metric_color_argmax(halves, maximum, name) ==
    rgba(clamp(round(255 * (halves - 2), maximum)),
         clamp(round(255 * (2 * maximum - halves + 2), maximum)), 0)

\* get_metric_color(val, maximum, name) for val = halves / 2: with
\* factor = 2 / maximum, factor * 255 * (val - 1) is
\* 255 * (halves - 2) / maximum and factor * 255 * (maximum - val + 1) is
\* 255 * (2 * maximum - halves + 2) / maximum.
get_metric_color(halves, maximum, name) ==
    LET limit == IF name # None THEN MAX_DICT[name] ELSE maximum
    IN  rgba(clamp(round(255 * (halves - 2), limit)),
             clamp(round(255 * (2 * limit - halves + 2), limit)), 0)

\* f".{', .'.join(names)}", piece by piece, for the names from position i.
RECURSIVE join_names(_, _)
join_names(names, i) ==
    IF i > Len(names) THEN <<>>
    ELSE <<(IF i = 1 THEN "." ELSE ", ."), names[i]>> \o join_names(names, i + 1)

\* The loop of simplify_css over styles.items(): colors_to_rules keeps the
\* colours in the order in which they were first seen, each with the names
\* appended so far.  styles is the dict as the sequence of its items.
RECURSIVE colors_to_rules(_, _, _)
colors_to_rules(styles, i, acc) ==
    IF i > Len(styles) THEN acc
    ELSE LET name == styles[i].name
             color == styles[i].color
         IN  colors_to_rules(styles, i + 1,
                 IF \E k \in DOMAIN acc : acc[k].color = color
                 THEN [k \in DOMAIN acc |->
                          IF acc[k].color = color
                          THEN [acc[k] EXCEPT !.names = Append(@, name)]
                          ELSE acc[k]]
                 ELSE Append(acc, [color |-> color, names |-> <<name>>]))

\* simplify_css with one rule for every name.
simplify_css_each(styles) ==
    [k \in DOMAIN styles |->
        [selector |-> join_names(<<styles[k].name>>, 1),
         color |-> styles[k].color]]

\* simplify_css(styles): the items of the dict returned, selector and
\* colour.
simplify_css(styles) ==
    LET rules == colors_to_rules(styles, 1, <<>>)
    IN  [k \in DOMAIN rules |->
            [selector |-> join_names(rules[k].names, 1),
             color |-> rules[k].color]]

\* "\n".join(result) for the lines f"{name} { background-color: {value};}",
\* from rule i.
RECURSIVE join_lines(_, _)
join_lines(rules, i) ==
    IF i > Len(rules) THEN <<>>
    ELSE (IF i = 1 THEN <<>> ELSE <<"\n">>)
         \o rules[i].selector
         \o <<" { background-color: ", rules[i].color, ";}">>
         \o join_lines(rules, i + 1)

\* append_css(css_output, styles): the rules and the writes to the file.
append_css(styles) ==
    LET rules == simplify_css(styles)
    IN  [op |-> "append_css", arg |-> styles, status |-> "ok",
         rules |-> rules,
         writes |-> << <<"\n\n">> \o join_lines(rules, 1) >>]

\* detail.get("endline", 0)
get_endline(detail) == IF "endline" \in DOMAIN detail THEN detail.endline ELSE 0

\* The loop of last_line over details.items(), the dict as the sequence of
\* its items: the endlines collected.
RECURSIVE lineends(_, _)
lineends(details, i) ==
    IF i > Len(details) THEN <<>>
    ELSE <<get_endline(details[i].detail)>> \o lineends(details, i + 1)

\* max(list) for a list that is not empty.
RECURSIVE max(_)
max(list) ==
    IF Len(list) = 1 THEN list[1]
    ELSE LET rest == max(Tail(list))
         IN  IF list[1] > rest THEN list[1] ELSE rest

\* last_line returning the endline of the entry seen last.
last_line_final(details) ==
    LET ends == lineends(details, 1)
    IN  IF ends = <<>> THEN 0 ELSE ends[Len(ends)]

\* last_line(details) == max(lineends or [0])
last_line(details) ==
    LET ends == lineends(details, 1)
    IN  max(IF ends = <<>> THEN <<0>> ELSE ends)

(***************************************************************************)
(* The state machine.                                                      *)
(***************************************************************************)
\* The parents a commit may have: none (a root), one, or two in either
\* order (a merge), taken from the two commits before it.
ParentChoices(i) ==
    LET before == {j \in 1..(i - 1) : j >= i - 2}
    IN  {<<>>} \cup {<<j>> : j \in before}
               \cup {ps \in before \X before : ps[1] # ps[2]}

RECURSIVE Histories(_)
Histories(n) ==
    IF n = 0 THEN {<<>>}
    ELSE {Append(h, [tree |-> t, parents |-> ps]) :
              h \in Histories(n - 1), t \in Trees, ps \in ParentChoices(n)}

\* Histories of regular files without forks: every commit but the first has
\* the one before it as its only parent.
LinearHistories(n) ==
    {h \in Histories(n) :
        \A i \in 1..n :
            /\ h[i].parents = IF i = 1 THEN <<>> ELSE <<i - 1>>
            /\ \A p \in Paths : h[i].tree[p].kind # "link"}

\* A tree and the trees one edit of one path away from it.
Edits(tree) ==
    {tree} \cup {[tree EXCEPT ![p] = e] : p \in Paths, e \in {NoEntry, File(1), File(2)}}

\* The archiver is constructed on a repository with HEAD on master and a
\* clean working directory.
InitOn(histories) ==
    /\ commits \in histories
    /\ HEAD = Len(commits)
    /\ branches = [b \in {"master"} |-> HEAD]
    /\ worktree = commits[HEAD].tree
    /\ index = commits[HEAD].tree
    /\ original = [worktree |-> worktree, index |-> index]
    /\ unwritable = {}
    /\ state = NoState
    /\ result = Outcome("init", 0, "ok", <<>>, <<>>, <<>>)

Init == \E n \in 1..MaxCommits : InitOn(Histories(n))

\* The archiver is constructed on a working directory that may hold a
\* staged change, or an unstaged or untracked one.
InitWorkTree ==
    /\ \E n \in 1..MaxCommits : commits \in LinearHistories(n)
    /\ HEAD = Len(commits)
    /\ branches = [b \in {"master"} |-> HEAD]
    /\ index \in Edits(commits[HEAD].tree)
    /\ worktree \in Edits(index)
    /\ index = commits[HEAD].tree \/ worktree = index
    /\ original = [worktree |-> worktree, index |-> index]
    /\ unwritable = {}
    /\ state = NoState
    /\ result = Outcome("init", 0, "ok", <<>>, <<>>, <<>>)

Revisions(max_revisions) ==
    /\ result' = revisions(max_revisions)
    /\ UNCHANGED <<commits, HEAD, branches, worktree, index, original,
                   unwritable, state>>

Find(search) ==
    /\ result' = find(search)
    /\ UNCHANGED <<commits, HEAD, branches, worktree, index, original,
                   unwritable, state>>

\* A checkout that, like the porcelain "git checkout <rev>", also detaches
\* HEAD at the revision.
Checkout_porcelain(revision) ==
    LET done == checkout(revision)
    IN  /\ worktree' = done.worktree
        /\ index' = done.index
        /\ HEAD' = revision
        /\ result' = Outcome("checkout", revision, done.status, <<>>, <<>>, <<>>)
        /\ UNCHANGED <<commits, branches, original, unwritable, state>>

\* GitArchiver.checkout(revision, options) -> checkout(self.drepo, rev)
Checkout(revision) ==
    LET done == checkout(revision)
    IN  /\ worktree' = done.worktree
        /\ index' = done.index
        /\ result' = Outcome("checkout", revision, done.status, <<>>, <<>>, <<>>)
        /\ UNCHANGED <<commits, HEAD, branches, original, unwritable, state>>

\* A finish that restores the tree of HEAD's first parent, as a checkout of
\* "HEAD~1" would.
Finish_parent ==
    LET done == checkout(IF commits[HEAD].parents = <<>> THEN HEAD
                         ELSE commits[HEAD].parents[1])
    IN  /\ worktree' = done.worktree
        /\ index' = done.index
        /\ result' = Outcome("finish", 0, done.status, <<>>, <<>>, <<>>)
        /\ UNCHANGED <<commits, HEAD, branches, original, unwritable, state>>

\* A finish that catches whatever the checkout raises and returns.
Finish_quiet ==
    LET done == checkout(HEAD)
    IN  /\ worktree' = done.worktree
        /\ index' = done.index
        /\ result' = Outcome("finish", 0, "ok", <<>>, <<>>, <<>>)
        /\ UNCHANGED <<commits, HEAD, branches, original, unwritable, state>>

\* GitArchiver.finish() -> checkout(self.drepo) with revision HEAD, then
\* self.repo.close(); nothing around the two calls catches an exception.
Finish ==
    LET done == checkout(HEAD)
    IN  /\ worktree' = done.worktree
        /\ index' = done.index
        /\ result' = Outcome("finish", 0, done.status, <<>>, <<>>, <<>>)
        /\ UNCHANGED <<commits, HEAD, branches, original, unwritable, state>>

\* The archiver is constructed on a clean working directory some paths of
\* which cannot be written (a read-only file, a directory without write
\* permission).
InitRestore ==
    /\ \E n \in 1..MaxCommits : commits \in LinearHistories(n)
    /\ HEAD = Len(commits)
    /\ branches = [b \in {"master"} |-> HEAD]
    /\ worktree = commits[HEAD].tree
    /\ index = commits[HEAD].tree
    /\ original = [worktree |-> worktree, index |-> index]
    /\ unwritable \in SUBSET Paths
    /\ state = NoState
    /\ result = Outcome("init", 0, "ok", <<>>, <<>>, <<>>)

\* The Indexes a build may have left: some of the commits, oldest first,
\* each with its cache entry.
States(n) ==
    {[index |-> SelectSeq([i \in 1..n |-> i], LAMBDA k : k \in S), cache |-> S] :
        S \in SUBSET (1..n)}

\* The annotate command starts on a clean working directory with the State
\* earlier builds left.
InitAnnotate ==
    /\ \E n \in 1..MaxAnnotateCommits :
           /\ commits \in LinearHistories(n)
           /\ state \in States(n)
    /\ HEAD = Len(commits)
    /\ branches = [b \in {"master"} |-> HEAD]
    /\ worktree = commits[HEAD].tree
    /\ index = commits[HEAD].tree
    /\ original = [worktree |-> worktree, index |-> index]
    /\ unwritable = {}
    /\ result = Outcome("init", 0, "ok", <<>>, <<>>, <<>>)

\* The specifiers of the model: the empty string, a word that names no
\* commit (0) and the hexsha of every commit.
Specifiers == {<<>>} \cup {<<k>> : k \in 0..Len(commits)}

\* The arguments of annotate_revision; css only changes what is written
\* into annotated.css, and output_dir where the files go.
Arguments ==
    [format : {"HTML", "CONSOLE"}, revision_index : Specifiers,
     path : {""} \cup Paths]

GetRevKey(revision_index) ==
    /\ result' = LET got == get_rev_key(revision_index)
                 IN  Report("get_rev_key", revision_index, got.status, got.code,
                            got.log, got.looked_up, <<>>, {})
    /\ UNCHANGED <<commits, HEAD, branches, worktree, index, original,
                   unwritable, state>>

AnnotateRevision(args) ==
    /\ result' = annotate_revision(args)
    /\ UNCHANGED <<commits, HEAD, branches, worktree, index, original,
                   unwritable, state>>

AnnotatorAnnotateRevision(args) ==
    /\ result' = annotator_annotate_revision(args)
    /\ UNCHANGED <<commits, HEAD, branches, worktree, index, original,
                   unwritable, state>>

\* The calls of the annotate command, and find.
NextAnnotate ==
    \/ \E s \in 0..Len(commits) : Find(s)
    \/ \E r \in Specifiers : GetRevKey(r)
    \/ \E args \in Arguments : AnnotateRevision(args)
    \/ \E args \in Arguments : AnnotatorAnnotateRevision(args)

\* What the harvesters may hold for one file: an error, or the blocks
\* (raw) or reports (Halstead) of a file that was analyzed.
RawDetails ==
    {HarvestError("invalid syntax")} \cup
    {Blocks(Module(loc), functions, classes) :
        loc \in 1..MaxLoc,
        functions \in {<<>>, <<(<<"f", RawFunctionMetrics(1, 1)>>)>>},
        classes \in {<<>>, <<(<<"C", RawClassMetrics(1, 2)>>)>>}}

HalsteadDetails ==
    {HarvestError("invalid syntax")} \cup
    {Halstead(NumberedHalsteadReport(h1, 0), functions) :
        h1 \in 1..MaxLoc,
        functions \in {<<>>, <<(<<"f", NumberedHalsteadReport(1, 1)>>)>>}}

\* harvester.results: one pair of file name and details for every target,
\* the files of the working directory.
targets == ls_tree_files(worktree)
Harvests(choices) ==
    {[i \in 1..Len(targets) |-> <<targets[i], ds[i]>>] :
        ds \in [1..Len(targets) -> choices]}

\* The operators run on the working directory of a repository with one
\* commit.
InitOperators == InitOn(LinearHistories(1))

RawRun(harvest) ==
    /\ result' = raw_run(harvest)
    /\ UNCHANGED <<commits, HEAD, branches, worktree, index, original,
                   unwritable, state>>

HalsteadRun(harvest) ==
    /\ result' = halstead_run(harvest)
    /\ UNCHANGED <<commits, HEAD, branches, worktree, index, original,
                   unwritable, state>>

NextOperators ==
    \/ \E harvest \in Harvests(RawDetails) : RawRun(harvest)
    \/ \E harvest \in Harvests(HalsteadDetails) : HalsteadRun(harvest)

\* The differ is applied to a commit and its parent.
InitDiffer == InitOn({h \in Histories(2) : h[2].parents = <<1>>})

Whatchanged(commit) ==
    /\ result' = [op |-> "whatchanged", arg |-> commit, status |-> "ok",
                  changes |-> whatchanged(commits[commit].tree,
                                          commits[commits[commit].parents[1]].tree)]
    /\ UNCHANGED <<commits, HEAD, branches, worktree, index, original,
                   unwritable, state>>

NextDiffer ==
    \/ \E c \in {c \in 1..Len(commits) : commits[c].parents # <<>>} : Whatchanged(c)
    \/ \E s \in 1..Len(commits) : Find(s)

\* The Index is loaded for the first time: it is empty.
InitIndex == \E n \in 1..MaxAnnotateCommits : InitOn(LinearHistories(n))

\* append(revision) for the Revision of a commit; the result keeps the keys
\* of the appends so far, in call order.
IndexAppend(key) ==
    LET calls == IF result.op = "append" THEN result.calls ELSE <<>>
    IN  /\ Len(calls) < MaxAppends
        /\ state' = [state EXCEPT !.index = index_append(@, key)]
        /\ result' = [op |-> "append", arg |-> key, status |-> "ok",
                      calls |-> Append(calls, key)]
        /\ UNCHANGED <<commits, HEAD, branches, worktree, index, original,
                       unwritable>>

NextIndex == \E key \in 1..Len(commits) : IndexAppend(key)

\* The first build starts on a repository with one commit, an empty Index
\* and an empty Cache.
InitBuild == InitOn(LinearHistories(1))

\* A new commit of regular files on master, made from a clean working
\* directory that is clean again afterwards.
Commit(tree) ==
    /\ Len(commits) < MaxCommits
    /\ \A p \in Paths : tree[p].kind # "link"
    /\ commits' = Append(commits, [tree |-> tree, parents |-> <<HEAD>>])
    /\ HEAD' = Len(commits) + 1
    /\ branches' = [branches EXCEPT !["master"] = Len(commits) + 1]
    /\ worktree' = tree
    /\ index' = tree
    /\ original' = [worktree |-> tree, index |-> tree]
    /\ result' = [op |-> "commit", arg |-> Len(commits) + 1, status |-> "ok"]
    /\ UNCHANGED <<unwritable, state>>

\* A build: the archiver's revisions, the new work among them processed in
\* chronological order, then finish().
Build(max_revisions) ==
    LET walked == revisions(max_revisions)
        walk == oldest_first(walked.revs)
        work == build_new_work(walk)
        done == build_loop(work, 1,
                    [files |-> worktree, cache |-> state.cache, writes |-> <<>>,
                     index |-> state.index, appended |-> <<>>])
    IN  IF walked.status # "ok"
        THEN /\ result' = [op |-> "build", arg |-> max_revisions,
                           status |-> walked.status, processed |-> <<>>,
                           appended |-> <<>>, cache_writes |-> <<>>]
             /\ UNCHANGED <<commits, HEAD, branches, worktree, index, original,
                            unwritable, state>>
        ELSE /\ state' = [index |-> done.index, cache |-> done.cache]
             /\ worktree' = materialize(commits[HEAD].tree, done.files)
             /\ index' = index_from_tree(commits[HEAD].tree)
             /\ result' = [op |-> "build", arg |-> max_revisions, status |-> "ok",
                           processed |-> work, appended |-> done.appended,
                           cache_writes |-> done.writes]
             /\ UNCHANGED <<commits, HEAD, branches, original, unwritable>>

NextBuild ==
    \/ \E tree \in Trees : Commit(tree)
    \/ \E n \in 1..MaxRevisions : Build(n)

\* The sequences over a set of at most n elements.
SeqsUpTo(S, n) == UNION {[1..k -> S] : k \in 0..n}

\* The bulk command starts on a repository with one commit.
InitBulk == InitOn(LinearHistories(1))

BuildReports(metrics, files, index_only, globals_only) ==
    /\ result' = build_reports(metrics, files, index_only, globals_only)
    /\ UNCHANGED <<commits, HEAD, branches, worktree, index, original,
                   unwritable, state>>

\* build_reports as the first call: what it returns depends on its
\* arguments alone.
NextBulk ==
    \E metrics \in SeqsUpTo(MetricNames, MaxMetrics),
       files \in SeqsUpTo(Paths, MaxFiles),
       index_only \in BOOLEAN, globals_only \in BOOLEAN :
        result.op = "init"
            /\ BuildReports(metrics, files, index_only, globals_only)

\* The annotate helpers start on a repository with one commit.
InitHelpers == InitOn(LinearHistories(1))

\* The values a colour is asked for, in halves: every half from -1 to
\* MaxVal, and the values around the maximum in use.
Vals(limit) ==
    (-2..(2 * MaxVal)) \cup {limit, limit + 2, 2 * limit, 2 * limit + 2,
                              2 * limit + 4}

GetMetricColor(halves, maximum, name) ==
    /\ result' = [op |-> "get_metric_color",
                  arg |-> [halves |-> halves, maximum |-> maximum,
                           name |-> name],
                  status |-> "ok",
                  color |-> get_metric_color(halves, maximum, name)]
    /\ UNCHANGED <<commits, HEAD, branches, worktree, index, original,
                   unwritable, state>>

\* get_metric_color as the first call: what it returns depends on its
\* arguments alone.
NextColor ==
    \E maximum \in 1..MaxMaximum, name \in {None} \cup DOMAIN MAX_DICT :
        \E halves \in Vals(IF name # None THEN MAX_DICT[name] ELSE maximum) :
            result.op = "init" /\ GetMetricColor(halves, maximum, name)

\* The class names and colours of the style dicts of the model.
ClassNames == {"one", "two", "three"}
Colors == {"color1", "color2", "color3"}

\* Every style dict over the names and colours: its items in insertion
\* order, no name twice.
Styles ==
    {s \in SeqsUpTo([name : ClassNames, color : Colors],
                    Cardinality(ClassNames)) :
        \A i, j \in DOMAIN s : s[i].name = s[j].name => i = j}

AppendCss(styles) ==
    /\ result' = append_css(styles)
    /\ UNCHANGED <<commits, HEAD, branches, worktree, index, original,
                   unwritable, state>>

\* append_css as the first call: what it writes depends on its argument
\* alone.
NextCss == \E styles \in Styles : result.op = "init" /\ AppendCss(styles)

\* The detailed entries of a file: an entry has a line number and an end
\* line, or, like the entry of a module, neither.
Details ==
    {[lineno |-> 1, endline |-> e] : e \in 0..MaxEndline} \cup {[loc |-> 1]}

\* The detail dicts of the model as the sequences of their items; the key
\* of an item is its position.
DetailDicts ==
    {[i \in DOMAIN s |-> [name |-> i, detail |-> s[i]]] :
        s \in SeqsUpTo(Details, MaxDetails)}

LastLine(details) ==
    /\ result' = [op |-> "last_line", arg |-> details, status |-> "ok",
                  last |-> last_line(details)]
    /\ UNCHANGED <<commits, HEAD, branches, worktree, index, original,
                   unwritable, state>>

\* last_line as the first call: what it returns depends on its argument
\* alone.
NextLastLine ==
    \E details \in DetailDicts : result.op = "init" /\ LastLine(details)

\* The tree objects of the model: a.py may be a file or a symbolic link,
\* c.py a file, and a directory is stored when it holds an entry.
Optional(name, kind) ==
    IF kind = "none" THEN <<>> ELSE <<Entry(name, kind, <<>>)>>
Directory(name, tree) ==
    IF tree = <<>> THEN <<>> ELSE <<Entry(name, "dir", tree)>>
TreeObjects(dir, below) ==
    {Optional("a.py", ka) \o Optional("c.py", kc) \o Directory(dir, tree) :
        ka \in {"none", "file", "link"}, kc \in {"none", "file"},
        tree \in below \cup {<<>>}}
RootTrees == TreeObjects("d", TreeObjects("e", TreeObjects("f", {})))

\* A repository whose only commit has any of the tree objects.
InitListing == InitOn({<<[tree |-> tree, parents |-> <<>>]>> : tree \in RootTrees})

GetTrackedFilesDirs(hexsha) ==
    LET tracked == tracked_files_dirs(commits[hexsha].tree)
    IN  /\ result' = [op |-> "get_tracked_files_dirs", arg |-> hexsha,
                      status |-> "ok", files |-> tracked.files,
                      dirs |-> tracked.dirs]
        /\ UNCHANGED <<commits, HEAD, branches, worktree, index, original,
                       unwritable, state>>

NextListing ==
    \E hexsha \in 1..Len(commits) :
        result.op = "init" /\ GetTrackedFilesDirs(hexsha)

\* bulk_annotate's call of get_latest_rev, with the revision_keys of the
\* Index.
GetLatestRev ==
    /\ result' = get_latest_rev(state.index)
    /\ UNCHANGED <<commits, HEAD, branches, worktree, index, original,
                   unwritable, state>>

NextLatest == result.op = "init" /\ GetLatestRev

\* The authors of the model: names of one word or more, and an e-mail
\* address.
Words == {"Ada", "Lovelace"}
Names == {n \in SeqsUpTo(Words, MaxNameWords) : n # <<>>}
Emails == {"ada@example.org", "al@example.org"}

\* A repository with one commit, by any author.
InitAuthors ==
    InitOn({<<[tree |-> h[1].tree, parents |-> <<>>,
               author |-> author_line(n, e)]>> :
               h \in LinearHistories(1), n \in Names, e \in Emails})

\* The author fields of the Revisions revisions() returns.
RevisionsAuthors(max_revisions) ==
    LET entries == get_walker(max_revisions)
        revs == [i \in DOMAIN entries |->
                    [key |-> entries[i]]
                        @@ revisions_author(commits[entries[i]].author)]
    IN  /\ ~is_dirty
        /\ result' = [op |-> "revisions_authors", arg |-> max_revisions,
                      status |-> "ok", revs |-> revisions_result(revs)]
        /\ UNCHANGED <<commits, HEAD, branches, worktree, index, original,
                       unwritable, state>>

\* The author fields of the Revision find() returns.
FindAuthor(search) ==
    /\ Resolves(search)
    /\ result' = [op |-> "find_author", arg |-> search, status |-> "ok",
                  revs |-> <<[key |-> search]
                                 @@ find_author(commits[search].author)>>]
    /\ UNCHANGED <<commits, HEAD, branches, worktree, index, original,
                   unwritable, state>>

NextAuthors ==
    \/ \E n \in 1..MaxRevisions : result.op = "init" /\ RevisionsAuthors(n)
    \/ \E s \in 1..Len(commits) : result.op = "init" /\ FindAuthor(s)

\* The calls that read the history, each as the first call on a newly
\* constructed archiver: neither call changes the repository, so a call
\* made after another returns what it returns as the first.
NextHistory ==
    \/ \E n \in 1..MaxRevisions : result.op = "init" /\ Revisions(n)
    \/ \E s \in 0..Len(commits) : result.op = "init" /\ Find(s)

\* All calls of the archiver.
Next ==
    \/ \E n \in 1..MaxRevisions : Revisions(n)
    \/ \E s \in 0..Len(commits) : Find(s)
    \/ \E c \in 1..Len(commits) : Checkout(c)
    \/ Finish

\* The history calls on every history of the bounds, forks and merges
\* included, with a clean working directory.
SpecHistory == Init /\ [][NextHistory]_vars

\* All calls on the histories without forks, with a working directory that
\* may be dirty when the archiver is constructed.
SpecWorkTree == InitWorkTree /\ [][Next]_vars

\* All calls on the histories without forks, with a clean working directory
\* that may refuse writes.
SpecRestore == InitRestore /\ [][Next]_vars

\* The annotate command on the histories without forks, with every Index a
\* build may have left.
SpecAnnotate == InitAnnotate /\ [][NextAnnotate]_vars

\* The two operators on every outcome of their harvesters.
SpecOperators == InitOperators /\ [][NextOperators]_vars

\* The differ, and find, on every pair of a parent's and a child's tree.
SpecDiffer == InitDiffer /\ [][NextDiffer]_vars

\* Appends to an Index that starts empty, in any order and with repeats.
SpecIndex == InitIndex /\ [][NextIndex]_vars

\* Builds and new commits in any order.
SpecBuild == InitBuild /\ [][NextBuild]_vars

\* build_reports on every choice of metrics, files and flags.
SpecBulk == InitBulk /\ [][NextBulk]_vars

\* get_metric_color on every maximum and name, for values below, between
\* and above the ends of the scale.
SpecColor == InitHelpers /\ [][NextColor]_vars

\* append_css on every style dict of the model.
SpecCss == InitHelpers /\ [][NextCss]_vars

\* last_line on every detail dict of the model.
SpecLastLine == InitHelpers /\ [][NextLastLine]_vars

\* The listing of the tracked files and directories of every tree object
\* of the model, directories nested two deep.
SpecListing == InitListing /\ [][NextListing]_vars

\* get_latest_rev on the histories without forks, with every Index a build
\* may have left.
SpecLatest == InitAnnotate /\ [][NextLatest]_vars

\* The author fields of revisions() and find() for every author of the
\* model.
SpecAuthors == InitAuthors /\ [][NextAuthors]_vars

(***************************************************************************)
(* Properties.                                                             *)
(***************************************************************************)
InTree(c, p) == commits[c].tree[p] # NoEntry
FirstParent(c) == commits[c].parents[1]
HasParent(c) == commits[c].parents # <<>>
Differing(c) == {p \in Paths : commits[c].tree[p] # commits[FirstParent(c)].tree[p]}
Returned(op) == result.op = op /\ result.status = "ok"
Clean == ~is_dirty /\ untracked_files = <<>>

\* The Revisions the last call produced whose change sets came from the
\* differ's branch of the code: all of find, all but the oldest of revisions.
PastOldest(i) == result.op = "find" \/ i < Len(result.revs)

\* The working directory was clean when the archiver was constructed.
StartedClean ==
    /\ original.index = commits[HEAD].tree
    /\ original.worktree = original.index

\* C1 (as claimed): after finish() the working directory holds exactly the
\* files and contents it had when the archiver was constructed on a clean
\* working directory, whatever checkouts happened in between.
C1_FinishRestoresWorkTree ==
    (result.op = "finish" /\ StartedClean) => worktree = original.worktree

\* C2 (as claimed): revisions() on a working directory with uncommitted
\* changes or untracked files raises DirtyGitRepositoryError and walks,
\* lists and diffs nothing.
C2_DirtyTreeFails ==
    (result.op = "revisions" /\ ~Clean)
        => /\ result.status = "DirtyGitRepositoryError"
           /\ result.revs = <<>>
           /\ result.listed = <<>>

\* C3 (as claimed): revisions() returns the commits oldest first, each with
\* a smaller commit time than the next, the last one being HEAD.
C3_OldestFirst ==
    Returned("revisions") =>
        /\ \A i, j \in 1..Len(result.revs) :
               i < j => commit_time(result.revs[i].key) < commit_time(result.revs[j].key)
        /\ result.revs[Len(result.revs)].key = HEAD

\* C3 (amended): revisions() returns the commits newest first, each with a
\* greater commit time than the next, the first one being HEAD.
C3_NewestFirst ==
    Returned("revisions") =>
        /\ \A i, j \in 1..Len(result.revs) :
               i < j => commit_time(result.revs[i].key) > commit_time(result.revs[j].key)
        /\ result.revs[1].key = HEAD

C3_Witness ==
    /\ Returned("revisions")
    /\ Len(result.revs) = 3
    /\ result.revs[1].key = HEAD

\* C4: revisions(path, N) returns at most N Revisions, no two of them with
\* the same key.
C4_AtMostNUniqueKeys ==
    Returned("revisions") =>
        /\ Len(result.revs) <= result.arg
        /\ \A i, j \in 1..Len(result.revs) :
               i # j => result.revs[i].key # result.revs[j].key

\* The bound cuts the walk: HEAD has more ancestors than were asked for.
C4_Witness ==
    /\ Returned("revisions")
    /\ result.arg = 2
    /\ Len(result.revs) = 2
    /\ HasParent(result.revs[2].key)

\* C5 (as claimed): for every Revision of revisions() or find() whose commit
\* has a parent, a path is in added_files iff it is in the commit's tree and
\* not in the parent's, in deleted_files iff it is in the parent's and not
\* in the commit's, in modified_files iff it is in both with different
\* content.
C5_ChangeSetsExact ==
    (Returned("revisions") \/ Returned("find")) =>
        \A i \in 1..Len(result.revs) :
            LET rev == result.revs[i]
                c == rev.key
            IN  HasParent(c) =>
                    \A p \in Paths :
                        /\ p \in Range(rev.added_files)
                               <=> (InTree(c, p) /\ ~InTree(FirstParent(c), p))
                        /\ p \in Range(rev.deleted_files)
                               <=> (InTree(FirstParent(c), p) /\ ~InTree(c, p))
                        /\ p \in Range(rev.modified_files)
                               <=> (InTree(c, p) /\ InTree(FirstParent(c), p)
                                    /\ p \in Differing(c))

\* C5 (amended): for every Revision of find(), and every Revision of
\* revisions() but the oldest of the returned list, whose commit has a
\* parent: the three sets together are exactly the paths that differ
\* between the commit's tree and its first parent's; a path only in the
\* commit's tree is in added_files alone, a path only in the parent's tree
\* is in deleted_files alone, and every path of modified_files is in both
\* trees with different content.
C5_ChangeSetsCoverDifference ==
    (Returned("revisions") \/ Returned("find")) =>
        \A i \in 1..Len(result.revs) :
            LET rev == result.revs[i]
                c == rev.key
                added == Range(rev.added_files)
                modified == Range(rev.modified_files)
                deleted == Range(rev.deleted_files)
            IN  (HasParent(c) /\ PastOldest(i)) =>
                    /\ added \cup modified \cup deleted = Differing(c)
                    /\ \A p \in Paths :
                        /\ (InTree(c, p) /\ ~InTree(FirstParent(c), p))
                               => (p \in added /\ p \notin modified /\ p \notin deleted)
                        /\ (InTree(FirstParent(c), p) /\ ~InTree(c, p))
                               => (p \in deleted /\ p \notin modified /\ p \notin added)
                        /\ p \in modified
                               => (InTree(c, p) /\ InTree(FirstParent(c), p))

\* revisions() returned a Revision, not its oldest, that added one path and
\* modified another.
C5_Witness ==
    /\ Returned("revisions")
    /\ Len(result.revs) >= 2
    /\ result.revs[1].diffed
    /\ result.revs[1].added_files # <<>>
    /\ result.revs[1].modified_files # <<>>

\* C6 (as claimed): in every Revision of revisions() or find() no path is in
\* two of added_files, modified_files and deleted_files.
C6_ChangeSetsDisjoint ==
    (Returned("revisions") \/ Returned("find")) =>
        \A i \in 1..Len(result.revs) :
            LET rev == result.revs[i]
            IN  /\ Range(rev.added_files) \cap Range(rev.modified_files) = {}
                /\ Range(rev.added_files) \cap Range(rev.deleted_files) = {}
                /\ Range(rev.modified_files) \cap Range(rev.deleted_files) = {}

\* C7: a Revision of revisions() or find() for a commit without parents has
\* added_files = tracked_files and empty modified_files and deleted_files,
\* and whatchanged was not invoked for it.
C7_RootAddsEverything ==
    (Returned("revisions") \/ Returned("find")) =>
        \A i \in 1..Len(result.revs) :
            LET rev == result.revs[i]
            IN  ~HasParent(rev.key) =>
                    /\ rev.added_files = rev.tracked_files
                    /\ rev.modified_files = <<>>
                    /\ rev.deleted_files = <<>>
                    /\ ~rev.diffed

\* revisions() returned a root commit with files that was not the first
\* commit of its loop.
C7_Witness ==
    /\ Returned("revisions")
    /\ Len(result.revs) = 3
    /\ ~HasParent(result.revs[2].key)
    /\ result.revs[2].tracked_files # <<>>

\* The tracked files of a commit's first parent, as a set.
ParentTracked(c) == Range(get_tracked_files_dirs(FirstParent(c)).files)

\* C8 (as claimed): for every Revision of revisions() whose commit has a
\* parent, tracked_files = (the parent's tracked_files union added_files)
\* minus deleted_files.
C8_TrackedFromParent ==
    Returned("revisions") =>
        \A i \in 1..Len(result.revs) :
            LET rev == result.revs[i]
            IN  HasParent(rev.key) =>
                    Range(rev.tracked_files) =
                        (ParentTracked(rev.key) \cup Range(rev.added_files))
                            \ Range(rev.deleted_files)

\* C8 (amended): for every Revision of revisions() but the oldest of the
\* returned list whose commit has a parent, tracked_files = (the first
\* parent's tracked_files minus deleted_files) union added_files.
C8_TrackedFromParentPastOldest ==
    Returned("revisions") =>
        \A i \in 1..Len(result.revs) :
            LET rev == result.revs[i]
            IN  (HasParent(rev.key) /\ PastOldest(i)) =>
                    Range(rev.tracked_files) =
                        (ParentTracked(rev.key) \ Range(rev.deleted_files))
                            \cup Range(rev.added_files)

\* revisions() returned a Revision, not its oldest, that deleted one path
\* and added another.
C8_Witness ==
    /\ Returned("revisions")
    /\ Len(result.revs) >= 2
    /\ result.revs[1].diffed
    /\ result.revs[1].added_files # <<>>
    /\ result.revs[1].deleted_files # <<>>
    /\ result.revs[1].added_files # result.revs[1].deleted_files

\* Whether two Revisions agree on the fields C9 names.
SameRevision(r1, r2) ==
    /\ r1.key = r2.key
    /\ r1.tracked_files = r2.tracked_files
    /\ r1.added_files = r2.added_files
    /\ r1.modified_files = r2.modified_files
    /\ r1.deleted_files = r2.deleted_files

\* C9 (as claimed): for every Revision R of revisions(), find(R.key) returns
\* a Revision with the same key, tracked_files, added_files, modified_files
\* and deleted_files.
C9_FindAgreesWithRevisions ==
    Returned("revisions") =>
        \A i \in 1..Len(result.revs) :
            /\ find(result.revs[i].key).status = "ok"
            /\ SameRevision(find(result.revs[i].key).revs[1], result.revs[i])

\* C9 (amended): for every Revision R of revisions() but the oldest of the
\* returned list, find(R.key) returns a Revision with the same key,
\* tracked_files, added_files, modified_files and deleted_files; for the
\* oldest one find(R.key) agrees on key and tracked_files, and on the three
\* change sets when R's commit has no parent.
C9_FindAgreesPastOldest ==
    Returned("revisions") =>
        \A i \in 1..Len(result.revs) :
            LET rev == result.revs[i]
                found == find(rev.key)
            IN  /\ found.status = "ok"
                /\ found.revs[1].key = rev.key
                /\ found.revs[1].tracked_files = rev.tracked_files
                /\ (PastOldest(i) \/ ~HasParent(rev.key))
                       => SameRevision(found.revs[1], rev)

\* revisions() returned a merge commit, not its oldest, whose two parents
\* have different trees and which changed something.
C9_Witness ==
    /\ Returned("revisions")
    /\ Len(result.revs) >= 2
    /\ Len(commits[result.revs[1].key].parents) = 2
    /\ commits[commits[result.revs[1].key].parents[1]].tree
           # commits[commits[result.revs[1].key].parents[2]].tree
    /\ result.revs[1].added_files # <<>>

\* C10: checkout and finish leave HEAD, every branch and the commits of the
\* repository as they are.
C10_CheckoutKeepsRefs ==
    [][(result'.op \in {"checkout", "finish"})
           => (HEAD' = HEAD /\ branches' = branches /\ commits' = commits)]_vars

\* finish() ran after the tree of another revision was checked out.
C10_Witness ==
    /\ result.op = "finish"
    /\ StartedClean
    /\ worktree # original.worktree
    /\ HEAD = Len(commits)
    /\ branches["master"] = Len(commits)

\* C11: finish() called on a clean working directory, where no checkout is
\* pending, leaves every file of the working directory as it is, and
\* finish() called right after finish() leaves the working directory the
\* first call left.
C11_FinishIdempotent ==
    [][/\ (Clean /\ result'.op = "finish") => worktree' = worktree
       /\ (result.op = "finish" /\ result'.op = "finish") => worktree' = worktree]_vars

\* finish() ran on a working directory that holds the files of HEAD and
\* nothing else, and left them there.
C11_Witness ==
    /\ result.op = "finish"
    /\ result.status = "ok"
    /\ StartedClean
    /\ Clean
    /\ worktree = original.worktree
    /\ \A p \in Paths : worktree[p] # NoEntry

\* The paths that make the working directory dirty: a staged change, a
\* modified or deleted tracked file, an untracked file.
Offending ==
    {p \in Paths : index[p] # commits[HEAD].tree[p] \/ worktree[p] # index[p]}

C13_DirtyCheckoutFails ==
    [][(~Clean /\ result'.op = "checkout")
           => /\ result'.status = "DirtyGitRepositoryError"
              /\ worktree' = worktree]_vars

\* C17: when finish() cannot write a file of HEAD's tree, the error of the
\* write comes out of finish(): the call does not return normally.
C17_RestoreFailureSurfaces ==
    (result.op = "finish" /\ Failing(commits[HEAD].tree) # {})
        => result.status = "OSError"

\* finish() failed after another revision was checked out, leaving the
\* index file at that revision.
C17_Witness ==
    /\ result.op = "finish"
    /\ result.status = "OSError"
    /\ index # commits[HEAD].tree

\* The calls of the annotate command that resolve a specifier.
Annotating ==
    result.op \in {"get_rev_key", "annotate_revision", "annotator.annotate_revision"}

\* The specifier of the last call of the annotate command, and the commit
\* it names.
Specifier == IF result.op = "get_rev_key" THEN result.arg ELSE result.arg.revision_index
Named == IF Specifier = <<>> THEN HEAD ELSE Specifier[1]

C15_IndexMissExits ==
    /\ \A k \in 1..Len(commits) :
           k \notin Range(state.index) => lookup(k).status = "KeyError"
    /\ (Annotating /\ Resolves(Named) /\ Named \notin Range(state.index))
           => /\ result.status = "exit"
              /\ result.code = 1
              /\ result.log = <<NotInCache>>
              /\ result.looked_up = <<Named>>
              /\ result.cache_reads = <<>>
              /\ result.written = {}

\* annotate_revision was asked for HTML of a commit that tracks files and
\* that the Index, which is not empty, does not hold.
C15_Witness ==
    /\ result.op = "annotate_revision"
    /\ Resolves(Named)
    /\ Named \notin Range(state.index)
    /\ state.index # <<>>
    /\ result.arg.format = "HTML"
    /\ cyclomatic(Named) # <<>>
    /\ result.status = "exit"

\* The names of the functions and classes the harvester reported for a
\* file, and the counter of its file-level report.
Reported(details) ==
    IF details.type = "list"
    THEN {details.blocks[j][1] : j \in 2..Len(details.blocks)}
    ELSE {details.functions[j][1] : j \in 1..Len(details.functions)}
HasTotal(entry, details) ==
    IF details.type = "list"
    THEN entry.total # EmptyDict /\ entry.total.loc = details.blocks[1][2].loc
    ELSE entry.total # EmptyDict /\ entry.total.h1 = details.total.h1

\* C16: RawMetricsOperator.run and HalsteadOperator.run return normally
\* with an entry for every file of the harvest; the entry of a file whose
\* harvest is an error has empty "detailed" and "total" and the file is
\* logged, and the entry of every other file holds the file's total and
\* one detailed entry for each function or class reported for it.
C16_FileFailureIsolated ==
    result.op \in {"raw.run", "halstead.run"} =>
        /\ result.status = "ok"
        /\ \A i \in 1..Len(result.arg) :
               LET filename == result.arg[i][1]
                   details == result.arg[i][2]
               IN  /\ filename \in DOMAIN result.results
                   /\ IF details.type = "dict"
                      THEN /\ result.results[filename]
                                 = [detailed |-> EmptyDict, total |-> EmptyDict]
                           /\ filename \in Range(result.log)
                      ELSE /\ HasTotal(result.results[filename], details)
                           /\ DOMAIN result.results[filename].detailed
                                 = Reported(details)
                           /\ filename \notin Range(result.log)

\* The raw operator ran on two files: the first could not be analyzed, the
\* second has a function and a class.
C16_Witness ==
    /\ result.op = "raw.run"
    /\ Len(result.arg) = 2
    /\ result.arg[1][2].type = "dict"
    /\ result.arg[2][2].type = "list"
    /\ DOMAIN result.results["d/b.py"].detailed = {"f", "C"}

\* The entry at p in the parent of commit c is at q, and no longer at p, in
\* c, and q held nothing in the parent.
Renamed(c, p, q) ==
    /\ p # q
    /\ commits[FirstParent(c)].tree[p] # NoEntry
    /\ commits[c].tree[p] = NoEntry
    /\ commits[FirstParent(c)].tree[q] = NoEntry
    /\ commits[c].tree[q] = commits[FirstParent(c)].tree[p]

\* C18: for a file renamed from p to q between a parent and its child,
\* whatchanged returns p among the deleted and q among the added files and
\* neither among the modified ones, and it returns these three lists only;
\* the Revision find builds for the child has them as its deleted_files,
\* added_files and modified_files.
C18_RenameIsDeleteAndAdd ==
    \A p, q \in Paths :
        /\ (result.op = "whatchanged" /\ Renamed(result.arg, p, q))
               => /\ DOMAIN result.changes = {"added", "modified", "deleted"}
                  /\ p \in Range(result.changes.deleted)
                  /\ q \in Range(result.changes.added)
                  /\ {p, q} \cap Range(result.changes.modified) = {}
        /\ (Returned("find") /\ HasParent(result.arg) /\ Renamed(result.arg, p, q))
               => /\ p \in Range(result.revs[1].deleted_files)
                  /\ q \in Range(result.revs[1].added_files)
                  /\ {p, q} \cap Range(result.revs[1].modified_files) = {}

\* whatchanged ran on a commit that moved a.py, unchanged, to d/b.py.
C18_Witness ==
    /\ result.op = "whatchanged"
    /\ Renamed(result.arg, "a.py", "d/b.py")
    /\ result.changes.deleted = <<"a.py">>
    /\ result.changes.added = <<"d/b.py">>

\* The keys of a sequence of appends, each at its first occurrence.
FirstAppends(calls) ==
    LET first == {i \in 1..Len(calls) : \A j \in 1..(i - 1) : calls[j] # calls[i]}
        Nth(n) == CHOOSE i \in first : Cardinality({j \in first : j < i}) = n - 1
    IN  [n \in 1..Cardinality(first) |-> calls[Nth(n)]]

\* C19: after any sequence of appends the Index holds every appended key
\* once, in the order of the first appends; the append of a key the Index
\* held already left the Index as it was, and no append raised.
C19_AppendIdempotent ==
    result.op = "append" =>
        LET earlier == SubSeq(result.calls, 1, Len(result.calls) - 1)
        IN  /\ result.status = "ok"
            /\ \A i, j \in 1..Len(state.index) :
                   i # j => state.index[i] # state.index[j]
            /\ state.index = FirstAppends(result.calls)
            /\ result.arg \in Range(earlier)
                   => state.index = FirstAppends(earlier)

\* The newest commit was appended, then an older one, then the newest
\* again.
C19_Witness ==
    /\ result.op = "append"
    /\ Len(result.calls) = 3
    /\ result.calls[1] = result.calls[3]
    /\ result.calls[1] > result.calls[2]
    /\ Len(state.index) = 2

\* C20: a build on a repository all of whose commits the Index holds
\* appends nothing to the Index and writes nothing to the Cache; a build on
\* an Index that is not empty processes only commits made after the
\* Index's last_revision.
C20_BuildResumes ==
    [][(result'.op = "build" /\ result'.status = "ok" /\ commits' = commits)
           => /\ (\A c \in 1..Len(commits) : c \in Range(state.index))
                     => /\ state' = state
                        /\ result'.appended = <<>>
                        /\ result'.cache_writes = <<>>
              /\ state.index # <<>>
                     => \A c \in Range(result'.processed) :
                            commit_time(c) > commit_time(last_revision(state.index))]_vars

\* A build after two new commits processed these two, oldest first, and
\* not the commit indexed before.
C20_Witness ==
    /\ result.op = "build"
    /\ Len(commits) = 3
    /\ result.processed = <<2, 3>>
    /\ result.cache_writes = <<2, 3>>
    /\ state.index = <<1, 2, 3>>

\* The number of calls of a function among the calls made.
Calls(fn) == Cardinality({i \in DOMAIN result.calls : result.calls[i].fn = fn})

\* C21 as stated: build_reports with m metrics and f files writes index.html
\* and returns 1 + m + f*(1 + m) paths; it calls report() f times and
\* graph() m + f*m times in full mode, graph() m times and report() never
\* when globals_only is set, and neither when index_only is set.
C21_BuildReportsCounts ==
    result.op = "build_reports" =>
        LET m == Len(result.arg.metrics)
            f == Len(result.arg.files)
        IN  /\ result.written = << <<"index.html">> >>
            /\ Len(result.created_files) = 1 + m + f * (1 + m)
            /\ (~result.arg.index_only /\ ~result.arg.globals_only) =>
                   Calls("report") = f /\ Calls("graph") = m + f * m
            /\ result.arg.globals_only =>
                   Calls("graph") = m /\ Calls("report") = 0
            /\ result.arg.index_only =>
                   Calls("graph") = 0 /\ Calls("report") = 0

\* C21, amended: the same, where the global graphs are drawn m times when
\* globals_only is set and index_only is not; index_only alone decides
\* when both are set.
C21_BuildReportsCountsByMode ==
    result.op = "build_reports" =>
        LET m == Len(result.arg.metrics)
            f == Len(result.arg.files)
        IN  /\ result.written = << <<"index.html">> >>
            /\ Len(result.created_files) = 1 + m + f * (1 + m)
            /\ (~result.arg.index_only /\ ~result.arg.globals_only) =>
                   Calls("report") = f /\ Calls("graph") = m + f * m
            /\ (result.arg.globals_only /\ ~result.arg.index_only) =>
                   Calls("graph") = m /\ Calls("report") = 0
            /\ result.arg.index_only =>
                   Calls("graph") = 0 /\ Calls("report") = 0

\* Both flags are set for two metrics and two files: nine paths are
\* returned and nothing is drawn.
C21_Witness ==
    /\ result.op = "build_reports"
    /\ result.arg.index_only /\ result.arg.globals_only
    /\ Len(result.arg.metrics) = 2 /\ Len(result.arg.files) = 2
    /\ Len(result.created_files) = 9
    /\ result.calls = <<>>

\* The maximum a colour was computed for, as the statement defines it.
Limit ==
    IF result.arg.name # None THEN MAX_DICT[result.arg.name]
    ELSE result.arg.maximum

\* C22: val = 0 gives pure green, val = maximum + 1 pure red and
\* val = maximum / 2 + 1 yellow; red and green are always in 0..255 and
\* blue is 0; with a name MAX_DICT[name] is the maximum and the maximum
\* argument is ignored.
C22_ColorScale ==
    result.op = "get_metric_color" =>
        /\ result.arg.halves = 0 =>
               result.color = rgba(0, 255, 0)
        /\ result.arg.halves = 2 * (Limit + 1) =>
               result.color = rgba(255, 0, 0)
        /\ result.arg.halves = Limit + 2 =>
               result.color = rgba(255, 255, 0)
        /\ result.color.red \in 0..255
        /\ result.color.green \in 0..255
        /\ result.color.blue = 0
        /\ result.arg.name # None =>
               \A maximum \in 1..MaxMaximum :
                   result.color =
                       get_metric_color(result.arg.halves, maximum,
                                        result.arg.name)

\* The middle of the scale of a name is asked for with a maximum argument
\* of 1, and is yellow.
C22_Witness ==
    /\ result.op = "get_metric_color"
    /\ result.arg.name = "effort"
    /\ result.arg.maximum = 1
    /\ result.arg.halves = 2002
    /\ result.color = rgba(255, 255, 0)

\* The positions of the class names in a selector, and the names there.
NamePositions(rule) == {j \in DOMAIN rule.selector : j % 2 = 0}
NamesOf(rule) == {rule.selector[j] : j \in NamePositions(rule)}

\* The position of a name in the style dict, and the position at which a
\* colour is first seen.
PositionOf(name) == CHOOSE i \in DOMAIN result.arg : result.arg[i].name = name
FirstSeen(color) ==
    CHOOSE i \in DOMAIN result.arg :
        /\ result.arg[i].color = color
        /\ \A j \in 1..(i - 1) : result.arg[j].color # color

\* C23: every class name of the input is in exactly one rule, which carries
\* its colour; every colour of the input has exactly one rule; names in a
\* rule and the rules are in first-seen order; the result is written with
\* one write call.
C23_CssCollapsed ==
    result.op = "append_css" =>
        LET styles == result.arg
            rules == result.rules
        IN  /\ \A i \in DOMAIN styles :
                   /\ Cardinality({k \in DOMAIN rules :
                          styles[i].name \in NamesOf(rules[k])}) = 1
                   /\ \A k \in DOMAIN rules :
                          styles[i].name \in NamesOf(rules[k]) =>
                              /\ rules[k].color = styles[i].color
                              /\ Cardinality({j \in NamePositions(rules[k]) :
                                     rules[k].selector[j] = styles[i].name}) = 1
            /\ \A i \in DOMAIN styles :
                   Cardinality({k \in DOMAIN rules :
                       rules[k].color = styles[i].color}) = 1
            /\ \A k \in DOMAIN rules :
                   /\ \E i \in DOMAIN styles : styles[i].color = rules[k].color
                   /\ \A j1, j2 \in NamePositions(rules[k]) :
                          j1 < j2 =>
                              PositionOf(rules[k].selector[j1])
                                  < PositionOf(rules[k].selector[j2])
            /\ \A k1, k2 \in DOMAIN rules :
                   k1 < k2 => FirstSeen(rules[k1].color) < FirstSeen(rules[k2].color)
            /\ Len(result.writes) = 1

\* The style dict of the unit test: one and three share a colour and are
\* written as one rule before the rule of two.
C23_Witness ==
    /\ result.op = "append_css"
    /\ result.arg = <<[name |-> "one", color |-> "color1"],
                      [name |-> "two", color |-> "color2"],
                      [name |-> "three", color |-> "color1"]>>
    /\ result.writes =
           << <<"\n\n", ".", "one", ", .", "three",
                " { background-color: ", "color1", ";}", "\n",
                ".", "two", " { background-color: ", "color2", ";}">> >>

\* The end line an entry counts with: its 'endline', or 0 without one.
EndOf(item) ==
    IF "endline" \in DOMAIN item.detail THEN item.detail.endline ELSE 0

\* C24: last_line(details) is the maximum 'endline' over all entries, an
\* entry without 'endline' counting as 0, and 0 for an empty mapping.
C24_LastLineIsMaximum ==
    result.op = "last_line" =>
        LET ends == {EndOf(result.arg[i]) : i \in DOMAIN result.arg}
        IN  IF ends = {} THEN result.last = 0
            ELSE /\ result.last \in ends
                 /\ \A e \in ends : e <= result.last

\* The largest end line is not that of the last entry, and an entry has no
\* end line.
C24_Witness ==
    /\ result.op = "last_line"
    /\ Len(result.arg) = 3
    /\ EndOf(result.arg[1]) = 2
    /\ "endline" \notin DOMAIN result.arg[2].detail
    /\ EndOf(result.arg[3]) = 1
    /\ result.last = 2

\* The directories above a path: the root and every proper prefix.
Ancestors(path) == {SubSeq(path, 1, k) : k \in 0..(Len(path) - 1)}

\* A directory holds a tracked file when it is above one.
HoldsTracked(dir) == \E i \in DOMAIN result.files : dir \in Ancestors(result.files[i])

\* C25 as stated: tracked_dirs holds the root directory, the parent and
\* every ancestor directory of every tracked file, and no directory that
\* holds no tracked file.
C25_TrackedDirsExact ==
    result.op = "get_tracked_files_dirs" =>
        /\ <<>> \in Range(result.dirs)
        /\ \A i \in DOMAIN result.files :
               Ancestors(result.files[i]) \subseteq Range(result.dirs)
        /\ \A dir \in Range(result.dirs) : HoldsTracked(dir)

\* C25, amended: the same, where only a directory other than the root is
\* in tracked_dirs because it holds a tracked file; the root is there for
\* every commit.
C25_TrackedDirsExactBelowRoot ==
    result.op = "get_tracked_files_dirs" =>
        /\ <<>> \in Range(result.dirs)
        /\ \A i \in DOMAIN result.files :
               Ancestors(result.files[i]) \subseteq Range(result.dirs)
        /\ \A dir \in Range(result.dirs) : dir # <<>> => HoldsTracked(dir)

\* The only tracked file is two directories deep: both directories and the
\* root are listed.
C25_Witness ==
    /\ result.op = "get_tracked_files_dirs"
    /\ result.files = << <<"d", "e", "a.py">> >>
    /\ Range(result.dirs) = {<<>>, <<"d">>, <<"d", "e">>}

\* No element occurs twice in a list.
DuplicateFree(list) == \A i, j \in DOMAIN list : list[i] = list[j] => i = j

\* C26 (as claimed): no path occurs twice in the tracked_files of a
\* Revision and no directory, the root entry "" included, occurs twice in
\* its tracked_dirs.
C26_TrackedListsDuplicateFree ==
    (Returned("revisions") \/ Returned("find")) =>
        \A i \in 1..Len(result.revs) :
            /\ DuplicateFree(result.revs[i].tracked_files)
            /\ DuplicateFree(result.revs[i].tracked_dirs)

\* The listed revisions whose cyclomatic data holds a filename.
Holding(filename) ==
    {result.arg[i] : i \in {j \in DOMAIN result.arg :
        filename \in Range(cyclomatic_items(result.arg[j]))}}

\* C27 (as claimed): with revision_keys in Index order get_latest_rev maps
\* every filename ending in '.py' of the cyclomatic data of a listed
\* revision to the newest listed revision that holds it; no other filename
\* is in the result.
C27_LatestRevIsNewest ==
    (result.op = "get_latest_rev" /\ result.status = "ok") =>
        /\ \A filename \in Paths \cup Range(DirOrder) \cup {""} :
               (endswith_py(filename) /\ Holding(filename) # {}) =>
                   /\ filename \in DOMAIN result.latest
                   /\ result.latest[filename] = Latest(Holding(filename))
        /\ \A filename \in DOMAIN result.latest : endswith_py(filename)

\* The commits reachable from a commit, itself included.
RECURSIVE ReachableFrom(_)
ReachableFrom(c) ==
    {c} \cup UNION {ReachableFrom(p) : p \in Range(commits[c].parents)}

\* The keys of the Revisions the last call returned.
ReturnedKeys == {result.revs[i].key : i \in 1..Len(result.revs)}

\* C28: when more than N commits are reachable from HEAD, revisions(path, N)
\* returns exactly the N most recent of them: N Revisions, HEAD among them,
\* and no reachable commit that was left out is more recent than one that
\* was returned.
C28_NMostRecent ==
    (Returned("revisions") /\ Cardinality(ReachableFrom(HEAD)) > result.arg) =>
        /\ Len(result.revs) = result.arg
        /\ Cardinality(ReturnedKeys) = result.arg
        /\ HEAD \in ReturnedKeys
        /\ ReturnedKeys \subseteq ReachableFrom(HEAD)
        /\ \A c \in ReachableFrom(HEAD) \ ReturnedKeys :
               \A k \in ReturnedKeys : commit_time(c) < commit_time(k)

\* HEAD is a merge of the two older commits and two Revisions are asked
\* for: the merge and the more recent of its parents are returned.
C28_Witness ==
    /\ Returned("revisions")
    /\ result.arg = 2
    /\ Len(commits) = 3
    /\ Len(commits[HEAD].parents) = 2
    /\ ReturnedKeys = {2, 3}

\* A merge: a commit with more than one parent.
IsMerge(c) == Len(commits[c].parents) > 1

\* The paths of a Revision's three change sets.
Changed(rev) ==
    Range(rev.added_files) \cup Range(rev.modified_files)
        \cup Range(rev.deleted_files)

\* The paths a merge has as its first parent has them, and not as another
\* parent has them.
OnlyOtherParents(c) ==
    {p \in Paths :
        /\ commits[c].tree[p] = commits[FirstParent(c)].tree[p]
        /\ \E k \in 2..Len(commits[c].parents) :
               commits[c].tree[p] # commits[commits[c].parents[k]].tree[p]}

\* C29 as stated: for a merge, revisions() and find() compute the three
\* change sets against the first parent only: they hold the paths that
\* differ from the first parent, and no path that differs from another
\* parent only.
C29_MergeFirstParent ==
    (Returned("revisions") \/ Returned("find")) =>
        \A i \in 1..Len(result.revs) :
            LET rev == result.revs[i]
            IN  IsMerge(rev.key) =>
                    /\ Changed(rev) = Differing(rev.key)
                    /\ Changed(rev) \cap OnlyOtherParents(rev.key) = {}

\* C29, amended: the same for find() and for every Revision of revisions()
\* but the oldest of the returned list, which lists all its tracked files
\* as added.
C29_MergeFirstParentPastOldest ==
    (Returned("revisions") \/ Returned("find")) =>
        \A i \in 1..Len(result.revs) :
            LET rev == result.revs[i]
            IN  (IsMerge(rev.key) /\ PastOldest(i)) =>
                    /\ Changed(rev) = Differing(rev.key)
                    /\ Changed(rev) \cap OnlyOtherParents(rev.key) = {}

\* revisions() returned a merge, not as its oldest Revision, that changed
\* d/b.py and has a.py as its first parent has it and not as its second
\* parent: only d/b.py is in the change sets.
C29_Witness ==
    /\ Returned("revisions")
    /\ Len(result.revs) = 3
    /\ IsMerge(result.revs[1].key)
    /\ "a.py" \in OnlyOtherParents(result.revs[1].key)
    /\ Changed(result.revs[1]) = {"d/b.py"}

\* The name and the address of a commit's author: what stands before " <"
\* and what stands between "<" and ">".
AuthorName(c) ==
    SubSeq(commits[c].author, 1, Len(commits[c].author) - 4)
AuthorEmail(c) == <<commits[c].author[Len(commits[c].author) - 1]>>

\* C30 (as claimed): the Revision revisions() builds for a commit carries
\* the author's full name and e-mail address, the same as find() returns
\* for the commit, also for a name of several words.
C30_AuthorsAgree ==
    result.op = "revisions_authors" =>
        \A i \in DOMAIN result.revs :
            LET rev == result.revs[i]
                found == find_author(commits[rev.key].author)
            IN  /\ rev.author_name = AuthorName(rev.key)
                /\ rev.author_email = AuthorEmail(rev.key)
                /\ rev.author_name = found.author_name
                /\ rev.author_email = found.author_email

====
